---- MODULE Spec2Model ----
(***************************************************************************)
(* Model of the per-stream cuSPARSE handle cache of                        *)
(* tensorflow/core/kernels/cuda_sparse.cc: the CudaSparseHandles class     *)
(* (an owning wrapper of one native handle), the process-wide HandleMap    *)
(* with its mutex, and CudaSparse::Initialize, which looks a stream up in  *)
(* the map and creates its handles on first use.                           *)
(*                                                                         *)
(* Spec        : threads calling CudaSparse::Initialize concurrently.      *)
(* SpecHandles : the life cycle of CudaSparseHandles objects on their own  *)
(*               (construct, Initialize, move, move-assign, destroy).      *)
(***************************************************************************)
EXTENDS Integers, FiniteSets, Sequences, TLC

\* ------------------------------------------------------------------ bounds
NumThreads == 2
NumStreams == 2
NumHandles == 2
MaxCalls == 2
NumSlots == 2
MaxOps == 5

Threads == 1..NumThreads
Streams == 1..NumStreams
\* Values a cusparseHandle_t can take: the native library hands out one that
\* is not live, and an unset field holds any of them.
Handles == 1..NumHandles
Slots == 1..NumSlots

NoThread == 0
End == 0
Null == 0

VARIABLES
  pc,           \* per thread: position inside CudaSparse::Initialize
  obj,          \* per thread: its CudaSparse object
  it,           \* per thread: the iterator of Initialize (a node id, or End)
  new_handles,  \* per thread: the local CudaSparseHandles of Initialize
  result,       \* per thread: the Status of its last Initialize
  handle_map_mutex,  \* the thread holding the mutex, or NoThread
  handle_map,   \* the nodes of the singleton HandleMap
  live,         \* native handles created and not destroyed
  bound,        \* native handle -> stream it was bound to by cusparseSetStream
  creates,      \* stream -> cusparseCreate calls issued on its behalf
  destroys,     \* cusparseDestroy calls issued
  ndebug,       \* TRUE when DCHECK compiles to nothing
  aborted,      \* the process is gone: a DCHECK failed, or it ran into undefined behaviour
  misused,      \* a native routine was called through an unset or dead handle
  calls,        \* Initialize calls started
  failed,       \* stream -> Initialize calls that returned an error
  created,      \* per thread: the handle cusparseCreate gave its current call
  mapAtLock,    \* per thread: the map as it was when the thread took the mutex
  slots,        \* SpecHandles: the CudaSparseHandles objects
  lastOp,       \* SpecHandles: the last operation applied
  ops           \* SpecHandles: operations applied

vars == <<pc, obj, it, new_handles, result, handle_map_mutex, handle_map, live,
          bound, creates, destroys, ndebug, aborted, misused, calls, failed,
          created, mapAtLock, slots, lastOp, ops>>

threadVars == <<pc, obj, it, new_handles, result, handle_map_mutex, handle_map,
                calls, failed, created, mapAtLock>>
slotVars == <<slots, lastOp, ops>>

\* ------------------------------------------------------- CudaSparseHandles

\* No object: storage before construction or after destruction.
NoHandles == [exists |-> FALSE, initialized_ |-> FALSE, stream_ |-> 0,
              cusparse_handle_ |-> 0]

\* explicit CudaSparseHandles(cudaStream_t stream): cusparse_handle_ is not
\* initialized; garbage is the value its storage happens to hold.
NewHandles(stream, garbage) ==
  [exists |-> TRUE, initialized_ |-> FALSE, stream_ |-> stream,
   cusparse_handle_ |-> garbage]

\* The native layer as the class sees it.
Native == [live |-> live, destroys |-> destroys, aborted |-> aborted]

\* DCHECK(cond): fatal unless compiled out.
DCheckFails(cond) == ~cond /\ ~ndebug

\* Mutant of Release: cusparseDestroy is called whether or not the object is
\* initialized.
ReleaseUnconditional(e, n, ok) ==
  [e |-> [e EXCEPT !.initialized_ = FALSE],
   n |-> [live |-> IF ok THEN n.live \ {e.cusparse_handle_} ELSE n.live,
          destroys |-> n.destroys + 1,
          aborted |-> n.aborted \/ DCheckFails(ok)]]

\* void Release(): the object and the native layer afterwards. ok is the
\* outcome of cusparseDestroy; a failed destroy leaves the handle alive.
Release(e, n, ok) ==
  IF e.initialized_
  THEN [e |-> [e EXCEPT !.initialized_ = FALSE],
        n |-> [live |-> IF ok THEN n.live \ {e.cusparse_handle_} ELSE n.live,
               destroys |-> n.destroys + 1,
               aborted |-> n.aborted \/ DCheckFails(ok)]]
  ELSE [e |-> e, n |-> n]

\* ~CudaSparseHandles()
Destructor(e, n, ok) ==
  [e |-> NoHandles, n |-> Release(e, n, ok).n]

\* Mutant of MoveConstructor: rhs.initialized_ is left as it was.
MoveConstructorKeepsRhs(rhs) ==
  [this |-> [exists |-> TRUE, initialized_ |-> rhs.initialized_,
             stream_ |-> rhs.stream_, cusparse_handle_ |-> rhs.cusparse_handle_],
   rhs |-> rhs]

\* CudaSparseHandles(CudaSparseHandles&& rhs): the new object and rhs after.
MoveConstructor(rhs) ==
  [this |-> [exists |-> TRUE, initialized_ |-> rhs.initialized_,
             stream_ |-> rhs.stream_, cusparse_handle_ |-> rhs.cusparse_handle_],
   rhs |-> [rhs EXCEPT !.initialized_ = FALSE]]

\* Lines 87-91 of operator=, statement by statement on the store mem, so
\* that this and rhs may be the same object.
MoveAssignBody(mem, this, rhs, n, ok) ==
  LET r == Release(mem[this], n, ok)
      m1 == [mem EXCEPT ![this] = r.e]
      m2 == [m1 EXCEPT ![this].stream_ = m1[rhs].stream_]
      m3 == [m2 EXCEPT ![this].cusparse_handle_ = m2[rhs].cusparse_handle_]
      m4 == [m3 EXCEPT ![this].initialized_ = m3[rhs].initialized_]
      m5 == [m4 EXCEPT ![rhs].initialized_ = FALSE]
  IN [mem |-> m5, n |-> r.n]

\* Mutant of MoveAssign: no check for self-assignment.
MoveAssignNoSelfCheck(mem, this, rhs, n, ok) ==
  MoveAssignBody(mem, this, rhs, n, ok)

\* Mutant of MoveAssign: the destination is overwritten without Release().
MoveAssignNoRelease(mem, this, rhs, n, ok) ==
  IF this = rhs
  THEN [mem |-> mem, n |-> n]
  ELSE [mem |-> [mem EXCEPT ![this] = mem[rhs],
                            ![rhs].initialized_ = FALSE],
        n |-> n]

\* operator=(CudaSparseHandles&& rhs), applied to the objects at addresses
\* this and rhs of the store mem: the store and the native layer afterwards.
MoveAssign(mem, this, rhs, n, ok) ==
  IF this = rhs
  THEN [mem |-> mem, n |-> n]
  ELSE MoveAssignBody(mem, this, rhs, n, ok)

\* Status Initialize(), line 98: nothing to do when already initialized.
InitializeSkips(e) == e.initialized_

\* Status Initialize(), line 99: cusparseCreate(&cusparse_handle_).
InitializeCreate(e, h, ok) ==
  IF ok THEN [e EXCEPT !.cusparse_handle_ = h] ELSE e

\* Status Initialize(), lines 100-101: cusparseSetStream, then initialized_.
InitializeBind(e, ok) ==
  IF ok THEN [e EXCEPT !.initialized_ = TRUE] ELSE e

\* ---------------------------------------------------------------- HandleMap

Keys(m) == {n.key : n \in m}

\* handle_map->find(key): the id of the node with that key, or End.
Find(m, key) ==
  IF \E n \in m : n.key = key
  THEN (CHOOSE n \in m : n.key = key).id
  ELSE End

Node(m, id) == CHOOSE n \in m : n.id = id

\* handle_map->insert(std::make_pair(key, std::move(val))).first: make_pair
\* moves val into a temporary pair, insert moves the pair's value into a new
\* node unless the key is there already, and the temporary is destroyed.
\* dup is the outcome of an insert that races with another access to the map
\* (undefined behaviour): TRUE links the node although the key is present.
\* Yields the map, the iterator, val (moved from) and the native layer.
MapInsert(m, key, val, n, ok, dup) ==
  LET pair == MoveConstructor(val)
      node == MoveConstructor(pair.this)
      id == Cardinality(m) + 1
  IN IF key \in Keys(m) /\ ~dup
     THEN [map |-> m, it |-> Find(m, key), val |-> pair.rhs,
           n |-> Destructor(pair.this, n, ok).n]
     ELSE [map |-> m \cup {[id |-> id, key |-> key, val |-> node.this]},
           it |-> id, val |-> pair.rhs,
           n |-> Destructor(node.rhs, n, ok).n]

\* Positions of Initialize between taking and releasing handle_map_mutex.
InSection == {"find", "create", "setstream", "fail", "insert", "assign"}

\* The outcomes of an access to the map by t: more than the defined one only
\* when another thread is inside the section at the same time.
RaceOutcomes(t) ==
  IF \E u \in Threads \ {t} : pc[u] \in InSection THEN BOOLEAN ELSE {FALSE}

\* ------------------------------------------------------------------- Init

NewObject(stream) ==
  [cuda_stream_ |-> stream, initialized_ |-> FALSE, cusparse_handle_ |-> Null]

InitNative ==
  /\ live = {}
  /\ bound = [h \in Handles |-> 0]
  /\ creates = [s \in Streams |-> 0]
  /\ destroys = 0
  /\ ndebug \in BOOLEAN
  /\ aborted = FALSE
  /\ misused = FALSE

InitThreads ==
  /\ pc = [t \in Threads |-> "idle"]
  /\ obj \in [Threads -> {NewObject(s) : s \in Streams}]
  /\ it = [t \in Threads |-> End]
  /\ new_handles = [t \in Threads |-> NoHandles]
  /\ result = [t \in Threads |-> "none"]
  /\ handle_map_mutex = NoThread
  /\ handle_map = {}
  /\ calls = 0
  /\ failed = [s \in Streams |-> 0]
  /\ created = [t \in Threads |-> Null]
  /\ mapAtLock = [t \in Threads |-> {}]

InitSlots ==
  /\ slots = [i \in Slots |-> NoHandles]
  /\ lastOp = [op |-> "none", dst |-> 0, src |-> 0]
  /\ ops = 0

Init == InitNative /\ InitThreads /\ InitSlots

\* SpecHandles starts with no CudaSparse object in use.
InitHandles ==
  /\ InitNative /\ InitSlots /\ InitThreads
  /\ obj = [t \in Threads |-> NewObject(1)]

\* --------------------------------------------------- CudaSparse::Initialize

\* CudaSparse::CudaSparse(OpKernelContext*): a fresh object for a stream.
Construct(t, s) ==
  /\ ~aborted
  /\ pc[t] = "idle"
  /\ result[t] # "none"
  /\ obj' = [obj EXCEPT ![t] = NewObject(s)]
  /\ result' = [result EXCEPT ![t] = "none"]
  /\ UNCHANGED <<pc, it, new_handles, handle_map_mutex, handle_map, calls,
                 failed, created, mapAtLock>>
  /\ UNCHANGED <<live, bound, creates, destroys, ndebug, aborted, misused>>
  /\ UNCHANGED slotVars

\* A thread enters Initialize (lines 163-165).
Call(t) ==
  /\ ~aborted
  /\ pc[t] = "idle"
  /\ calls < MaxCalls
  /\ calls' = calls + 1
  /\ pc' = [pc EXCEPT ![t] = "lock"]
  /\ result' = [result EXCEPT ![t] = "none"]
  /\ UNCHANGED <<obj, it, new_handles, handle_map_mutex, handle_map, failed,
                 created, mapAtLock>>
  /\ UNCHANGED <<live, bound, creates, destroys, ndebug, aborted, misused>>
  /\ UNCHANGED slotVars

\* Mutant of Lock: the thread goes on without waiting for the mutex.
LockNoMutex(t) ==
  /\ ~aborted
  /\ pc[t] = "lock"
  /\ handle_map_mutex' = t
  /\ mapAtLock' = [mapAtLock EXCEPT ![t] = handle_map]
  /\ pc' = [pc EXCEPT ![t] = "find"]
  /\ UNCHANGED <<obj, it, new_handles, result, handle_map, calls, failed,
                 created>>
  /\ UNCHANGED <<live, bound, creates, destroys, ndebug, aborted, misused>>
  /\ UNCHANGED slotVars

\* mutex_lock lock(handle_map_mutex) (line 166).
Lock(t) ==
  /\ ~aborted
  /\ pc[t] = "lock"
  /\ handle_map_mutex = NoThread
  /\ handle_map_mutex' = t
  /\ mapAtLock' = [mapAtLock EXCEPT ![t] = handle_map]
  /\ pc' = [pc EXCEPT ![t] = "find"]
  /\ UNCHANGED <<obj, it, new_handles, result, handle_map, calls, failed,
                 created>>
  /\ UNCHANGED <<live, bound, creates, destroys, ndebug, aborted, misused>>
  /\ UNCHANGED slotVars

\* Mutant of FindStep: the result of find is ignored and the handles are
\* always built anew.
FindStepAlwaysMiss(t) ==
  /\ ~aborted
  /\ pc[t] = "find"
  /\ it' = [it EXCEPT ![t] = End]
  /\ \E g \in Handles :
       new_handles' = [new_handles EXCEPT ![t] = NewHandles(obj[t].cuda_stream_, g)]
  /\ pc' = [pc EXCEPT ![t] = "create"]
  /\ UNCHANGED <<obj, result, handle_map_mutex, handle_map, calls, failed,
                 created, mapAtLock>>
  /\ UNCHANGED <<live, bound, creates, destroys, ndebug, aborted, misused>>
  /\ UNCHANGED slotVars

\* Mutant of FindStep: when the stream has no entry the lock is released
\* before the new handle is created and bound.
FindStepReleasesOnMiss(t) ==
  /\ ~aborted
  /\ pc[t] = "find"
  /\ LET f == Find(handle_map, obj[t].cuda_stream_)
     IN /\ it' = [it EXCEPT ![t] = f]
        /\ IF f = End
           THEN /\ \E g \in Handles :
                     new_handles' =
                       [new_handles EXCEPT ![t] = NewHandles(obj[t].cuda_stream_, g)]
                /\ pc' = [pc EXCEPT ![t] = "create"]
                /\ handle_map_mutex' = NoThread
           ELSE /\ new_handles' = new_handles
                /\ handle_map_mutex' = handle_map_mutex
                /\ pc' = [pc EXCEPT ![t] = "assign"]
  /\ UNCHANGED <<obj, result, handle_map, calls, failed,
                 created, mapAtLock>>
  /\ UNCHANGED <<live, bound, creates, destroys, ndebug, aborted, misused>>
  /\ UNCHANGED slotVars

\* it = handle_map->find(cuda_stream_) and the branch on it (lines 167-172).
FindStep(t) ==
  /\ ~aborted
  /\ pc[t] = "find"
  /\ LET f == Find(handle_map, obj[t].cuda_stream_)
     IN /\ it' = [it EXCEPT ![t] = f]
        /\ IF f = End
           THEN /\ \E g \in Handles :
                     new_handles' =
                       [new_handles EXCEPT ![t] = NewHandles(obj[t].cuda_stream_, g)]
                /\ pc' = [pc EXCEPT ![t] = "create"]
           ELSE /\ new_handles' = new_handles
                /\ pc' = [pc EXCEPT ![t] = "assign"]
  /\ UNCHANGED <<obj, result, handle_map_mutex, handle_map, calls, failed,
                 created, mapAtLock>>
  /\ UNCHANGED <<live, bound, creates, destroys, ndebug, aborted, misused>>
  /\ UNCHANGED slotVars

\* new_handles.Initialize() up to cusparseCreate (lines 173, 98-99).
CreateStep(t) ==
  /\ ~aborted
  /\ pc[t] = "create"
  /\ LET e == new_handles[t]
         s == obj[t].cuda_stream_
     IN IF InitializeSkips(e)
        THEN /\ pc' = [pc EXCEPT ![t] = "insert"]
             /\ UNCHANGED <<new_handles, live, creates, created>>
        ELSE \/ \E h \in Handles \ live :
                  /\ new_handles' = [new_handles EXCEPT ![t] = InitializeCreate(e, h, TRUE)]
                  /\ live' = live \cup {h}
                  /\ created' = [created EXCEPT ![t] = h]
                  /\ creates' = [creates EXCEPT ![s] = @ + 1]
                  /\ pc' = [pc EXCEPT ![t] = "setstream"]
             \/ /\ new_handles' = [new_handles EXCEPT ![t] = InitializeCreate(e, Null, FALSE)]
                /\ creates' = [creates EXCEPT ![s] = @ + 1]
                /\ pc' = [pc EXCEPT ![t] = "fail"]
                /\ UNCHANGED <<live, created>>
  /\ UNCHANGED <<obj, it, result, handle_map_mutex, handle_map, calls, failed,
                 mapAtLock>>
  /\ UNCHANGED <<bound, destroys, ndebug, aborted, misused>>
  /\ UNCHANGED slotVars

\* Mutant of SetStreamStep: the entry is marked initialized without the
\* handle having been bound to the stream.
SetStreamStepSkipsBind(t) ==
  /\ ~aborted
  /\ pc[t] = "setstream"
  /\ new_handles' = [new_handles EXCEPT ![t] = InitializeBind(new_handles[t], TRUE)]
  /\ pc' = [pc EXCEPT ![t] = "insert"]
  /\ UNCHANGED <<obj, it, result, handle_map_mutex, handle_map, calls, failed,
                 created, mapAtLock>>
  /\ UNCHANGED <<live, bound, creates, destroys, ndebug, aborted, misused>>
  /\ UNCHANGED slotVars

\* new_handles.Initialize() from cusparseSetStream on (lines 100-102).
SetStreamStep(t) ==
  /\ ~aborted
  /\ pc[t] = "setstream"
  /\ LET e == new_handles[t]
     IN \/ /\ new_handles' = [new_handles EXCEPT ![t] = InitializeBind(e, TRUE)]
           /\ bound' = [bound EXCEPT ![e.cusparse_handle_] = e.stream_]
           /\ pc' = [pc EXCEPT ![t] = "insert"]
        \/ /\ new_handles' = [new_handles EXCEPT ![t] = InitializeBind(e, FALSE)]
           /\ bound' = bound
           /\ pc' = [pc EXCEPT ![t] = "fail"]
  /\ UNCHANGED <<obj, it, result, handle_map_mutex, handle_map, calls, failed,
                 created, mapAtLock>>
  /\ UNCHANGED <<live, creates, destroys, ndebug, aborted, misused>>
  /\ UNCHANGED slotVars

\* Mutant of FailReturn: the entry that failed to initialize is put into the
\* map before the error is returned.
FailReturnCachesFailure(t) ==
  /\ ~aborted
  /\ pc[t] = "fail"
  /\ handle_map' = handle_map \cup
       {[id |-> Cardinality(handle_map) + 1, key |-> obj[t].cuda_stream_,
         val |-> new_handles[t]]}
  /\ new_handles' = [new_handles EXCEPT ![t] = NoHandles]
  /\ handle_map_mutex' = NoThread
  /\ it' = [it EXCEPT ![t] = End]
  /\ result' = [result EXCEPT ![t] = "error"]
  /\ failed' = [failed EXCEPT ![obj[t].cuda_stream_] = @ + 1]
  /\ pc' = [pc EXCEPT ![t] = "idle"]
  /\ created' = [created EXCEPT ![t] = Null]
  /\ mapAtLock' = [mapAtLock EXCEPT ![t] = {}]
  /\ UNCHANGED <<obj, calls>>
  /\ UNCHANGED <<live, bound, creates, destroys, ndebug, aborted, misused>>
  /\ UNCHANGED slotVars

\* Mutant of FailReturn: the error is returned without releasing the lock.
FailReturnKeepsLock(t) ==
  /\ ~aborted
  /\ pc[t] = "fail"
  /\ \E ok \in BOOLEAN :
       LET d == Destructor(new_handles[t], Native, ok)
       IN /\ new_handles' = [new_handles EXCEPT ![t] = d.e]
          /\ live' = d.n.live
          /\ destroys' = d.n.destroys
          /\ aborted' = d.n.aborted
  /\ handle_map_mutex' = handle_map_mutex
  /\ it' = [it EXCEPT ![t] = End]
  /\ result' = [result EXCEPT ![t] = "error"]
  /\ failed' = [failed EXCEPT ![obj[t].cuda_stream_] = @ + 1]
  /\ pc' = [pc EXCEPT ![t] = "idle"]
  /\ created' = [created EXCEPT ![t] = Null]
  /\ mapAtLock' = [mapAtLock EXCEPT ![t] = {}]
  /\ UNCHANGED <<obj, handle_map, calls>>
  /\ UNCHANGED <<bound, creates, ndebug, misused>>
  /\ UNCHANGED slotVars

\* TF_RETURN_IF_ERROR (line 173) with an error: new_handles is destroyed, the
\* lock is released and the error is returned.
FailReturn(t) ==
  /\ ~aborted
  /\ pc[t] = "fail"
  /\ \E ok \in BOOLEAN :
       LET d == Destructor(new_handles[t], Native, ok)
       IN /\ new_handles' = [new_handles EXCEPT ![t] = d.e]
          /\ live' = d.n.live
          /\ destroys' = d.n.destroys
          /\ aborted' = d.n.aborted
  /\ handle_map_mutex' = NoThread
  /\ it' = [it EXCEPT ![t] = End]
  /\ result' = [result EXCEPT ![t] = "error"]
  /\ failed' = [failed EXCEPT ![obj[t].cuda_stream_] = @ + 1]
  /\ pc' = [pc EXCEPT ![t] = "idle"]
  /\ created' = [created EXCEPT ![t] = Null]
  /\ mapAtLock' = [mapAtLock EXCEPT ![t] = {}]
  /\ UNCHANGED <<obj, handle_map, calls>>
  /\ UNCHANGED <<bound, creates, ndebug, misused>>
  /\ UNCHANGED slotVars

\* The insert of lines 174-176 and the end of new_handles' scope (line 177).
InsertStep(t) ==
  /\ ~aborted
  /\ pc[t] = "insert"
  /\ \E ok \in BOOLEAN, dup \in RaceOutcomes(t) :
       LET r == MapInsert(handle_map, obj[t].cuda_stream_, new_handles[t], Native, ok, dup)
           d == Destructor(r.val, r.n, ok)
       IN /\ handle_map' = r.map
          /\ it' = [it EXCEPT ![t] = r.it]
          /\ new_handles' = [new_handles EXCEPT ![t] = d.e]
          /\ live' = d.n.live
          /\ destroys' = d.n.destroys
          /\ aborted' = d.n.aborted
  /\ pc' = [pc EXCEPT ![t] = "assign"]
  /\ UNCHANGED <<obj, result, handle_map_mutex, calls, failed, created, mapAtLock>>
  /\ UNCHANGED <<bound, creates, ndebug, misused>>
  /\ UNCHANGED slotVars

\* Mutant of AssignReturn: OK is returned without releasing the lock.
AssignReturnKeepsLock(t) ==
  /\ ~aborted
  /\ pc[t] = "assign"
  /\ IF DCheckFails(Node(handle_map, it[t]).val.initialized_)
     THEN /\ aborted' = TRUE
          /\ UNCHANGED <<pc, obj, it, result, handle_map_mutex, created, mapAtLock>>
     ELSE /\ aborted' = aborted
          /\ created' = [created EXCEPT ![t] = Null]
          /\ mapAtLock' = [mapAtLock EXCEPT ![t] = {}]
          /\ obj' = [obj EXCEPT ![t].cusparse_handle_ = it[t],
                                ![t].initialized_ = TRUE]
          /\ handle_map_mutex' = handle_map_mutex
          /\ it' = [it EXCEPT ![t] = End]
          /\ result' = [result EXCEPT ![t] = "ok"]
          /\ pc' = [pc EXCEPT ![t] = "idle"]
  /\ UNCHANGED <<new_handles, handle_map, calls, failed>>
  /\ UNCHANGED <<live, bound, creates, destroys, ndebug, misused>>
  /\ UNCHANGED slotVars

\* Lines 178-180: take the address of the node's handle (handle() checks
\* initialized_), mark the object initialized, release the lock, return OK.
AssignReturn(t) ==
  /\ ~aborted
  /\ pc[t] = "assign"
  /\ IF DCheckFails(Node(handle_map, it[t]).val.initialized_)
     THEN /\ aborted' = TRUE
          /\ UNCHANGED <<pc, obj, it, result, handle_map_mutex, created, mapAtLock>>
     ELSE /\ aborted' = aborted
          /\ created' = [created EXCEPT ![t] = Null]
          /\ mapAtLock' = [mapAtLock EXCEPT ![t] = {}]
          /\ obj' = [obj EXCEPT ![t].cusparse_handle_ = it[t],
                                ![t].initialized_ = TRUE]
          /\ handle_map_mutex' = NoThread
          /\ it' = [it EXCEPT ![t] = End]
          /\ result' = [result EXCEPT ![t] = "ok"]
          /\ pc' = [pc EXCEPT ![t] = "idle"]
  /\ UNCHANGED <<new_handles, handle_map, calls, failed>>
  /\ UNCHANGED <<live, bound, creates, destroys, ndebug, misused>>
  /\ UNCHANGED slotVars

\* What *cusparse_handle_ refers to when a wrapper dereferences it: the native
\* handle of the map node the object points at, if that node holds a handle
\* that was created and not destroyed.
ValidTarget(o) ==
  /\ o.cusparse_handle_ # Null
  /\ \E n \in handle_map : /\ n.id = o.cusparse_handle_
                           /\ n.val.initialized_
                           /\ n.val.cusparse_handle_ \in live

\* A sparse-routine wrapper called on thread t's object (Gtsv lines 214-222,
\* Coo2csr lines 391-405, and the others alike): DCHECK(initialized_), then
\* the native routine is called with *cusparse_handle_.  Where the check is
\* compiled out the call goes through whatever the pointer holds; that is
\* undefined behaviour, and the model records it and stops the process there.
Use(t) ==
  /\ ~aborted
  /\ pc[t] = "idle"
  /\ IF DCheckFails(obj[t].initialized_)
     THEN aborted' = TRUE /\ misused' = misused
     ELSE IF ValidTarget(obj[t])
     THEN aborted' = aborted /\ misused' = misused
     ELSE aborted' = TRUE /\ misused' = TRUE
  /\ UNCHANGED <<live, bound, creates, destroys, ndebug>>
  /\ UNCHANGED threadVars
  /\ UNCHANGED slotVars

Next ==
  \/ \E t \in Threads, s \in Streams : Construct(t, s)
  \/ \E t \in Threads : Call(t)
  \/ \E t \in Threads : Lock(t)
  \/ \E t \in Threads : FindStep(t)
  \/ \E t \in Threads : CreateStep(t)
  \/ \E t \in Threads : SetStreamStep(t)
  \/ \E t \in Threads : FailReturn(t)
  \/ \E t \in Threads : InsertStep(t)
  \/ \E t \in Threads : AssignReturn(t)
  \/ \E t \in Threads : Use(t)

Spec == Init /\ [][Next]_vars

\* A step of thread t inside Initialize once it holds the lock.  Each is a
\* native call or plain code that completes, so a thread that can take one
\* eventually does.
SectionStep(t) ==
  \/ FindStep(t)
  \/ CreateStep(t)
  \/ SetStreamStep(t)
  \/ FailReturn(t)
  \/ InsertStep(t)
  \/ AssignReturn(t)

\* The scheduling Initialize relies on: running threads make progress, and
\* the mutex is fair, so a thread that finds it free again and again gets it.
Fairness ==
  \A t \in Threads : WF_vars(SectionStep(t)) /\ SF_vars(Lock(t))

SpecFair == Init /\ [][Next]_vars /\ Fairness

\* ------------------------------------- CudaSparseHandles objects on their own

Op(name, dst, src) == [op |-> name, dst |-> dst, src |-> src]

\* CudaSparseHandles(stream) at slot i.
HConstruct(i, s, g) ==
  /\ ~aborted /\ ops < MaxOps
  /\ ~slots[i].exists
  /\ slots' = [slots EXCEPT ![i] = NewHandles(s, g)]
  /\ lastOp' = Op("construct", i, 0)
  /\ ops' = ops + 1
  /\ UNCHANGED <<live, bound, creates, destroys, ndebug, aborted, misused>>
  /\ UNCHANGED threadVars

\* slots[i].Initialize() (lines 97-103), with each outcome of the native calls.
HInitialize(i) ==
  /\ ~aborted /\ ops < MaxOps
  /\ slots[i].exists
  /\ LET e == slots[i]
     IN IF InitializeSkips(e)
        THEN UNCHANGED <<slots, live, bound, creates>>
        ELSE \/ \E h \in Handles \ live :
                  /\ slots' = [slots EXCEPT
                                 ![i] = InitializeBind(InitializeCreate(e, h, TRUE), TRUE)]
                  /\ live' = live \cup {h}
                  /\ bound' = [bound EXCEPT ![h] = e.stream_]
                  /\ creates' = [creates EXCEPT ![e.stream_] = @ + 1]
             \/ \E h \in Handles \ live :
                  /\ slots' = [slots EXCEPT
                                 ![i] = InitializeBind(InitializeCreate(e, h, TRUE), FALSE)]
                  /\ live' = live \cup {h}
                  /\ creates' = [creates EXCEPT ![e.stream_] = @ + 1]
                  /\ bound' = bound
             \/ /\ slots' = [slots EXCEPT ![i] = InitializeCreate(e, Null, FALSE)]
                /\ creates' = [creates EXCEPT ![e.stream_] = @ + 1]
                /\ UNCHANGED <<live, bound>>
  /\ lastOp' = Op("initialize", i, 0)
  /\ ops' = ops + 1
  /\ UNCHANGED <<destroys, ndebug, aborted, misused>>
  /\ UNCHANGED threadVars

\* new (slot d) CudaSparseHandles(std::move(slots[s])).
HMoveConstruct(d, s) ==
  /\ ~aborted /\ ops < MaxOps
  /\ slots[s].exists /\ ~slots[d].exists
  /\ LET r == MoveConstructor(slots[s])
     IN slots' = [slots EXCEPT ![d] = r.this, ![s] = r.rhs]
  /\ lastOp' = Op("move_construct", d, s)
  /\ ops' = ops + 1
  /\ UNCHANGED <<live, bound, creates, destroys, ndebug, aborted, misused>>
  /\ UNCHANGED threadVars

\* slots[d] = std::move(slots[s]); d = s is the self-assignment.
HMoveAssign(d, s) ==
  /\ ~aborted /\ ops < MaxOps
  /\ slots[s].exists /\ slots[d].exists
  /\ \E ok \in BOOLEAN :
       LET r == MoveAssign(slots, d, s, Native, ok)
       IN /\ slots' = r.mem
          /\ live' = r.n.live
          /\ destroys' = r.n.destroys
          /\ aborted' = r.n.aborted
  /\ lastOp' = Op("move_assign", d, s)
  /\ ops' = ops + 1
  /\ UNCHANGED <<bound, creates, ndebug, misused>>
  /\ UNCHANGED threadVars

\* slots[i].~CudaSparseHandles().
HDestroy(i) ==
  /\ ~aborted /\ ops < MaxOps
  /\ slots[i].exists
  /\ \E ok \in BOOLEAN :
       LET r == Destructor(slots[i], Native, ok)
       IN /\ slots' = [slots EXCEPT ![i] = r.e]
          /\ live' = r.n.live
          /\ destroys' = r.n.destroys
          /\ aborted' = r.n.aborted
  /\ lastOp' = Op("destroy", i, 0)
  /\ ops' = ops + 1
  /\ UNCHANGED <<bound, creates, ndebug, misused>>
  /\ UNCHANGED threadVars

\* The stream an entry at slot i is constructed for.  The class only stores
\* the stream and hands it to cusparseSetStream, so one stream per slot is
\* enough; distinct slots get distinct streams while NumSlots <= NumStreams,
\* which lets a relocated entry be told from one constructed in place.
SlotStream(i) == ((i - 1) % NumStreams) + 1

NextHandles ==
  \/ \E i \in Slots, g \in Handles : HConstruct(i, SlotStream(i), g)
  \/ \E i \in Slots : HInitialize(i)
  \/ \E d \in Slots, s \in Slots : HMoveConstruct(d, s)
  \/ \E d \in Slots, s \in Slots : HMoveAssign(d, s)
  \/ \E i \in Slots : HDestroy(i)

SpecHandles == InitHandles /\ [][NextHandles]_vars

\* ------------------------------------------------ properties of Initialize

StreamOf(t) == obj[t].cuda_stream_

\* t has returned OK from Initialize and still holds what it was given.
ReturnedOk(t) == pc[t] = "idle" /\ result[t] = "ok"

\* Threads whose current call has issued cusparseCreate for s and has neither
\* inserted an entry nor returned yet.
InFlight(s) ==
  Cardinality({t \in Threads :
                 StreamOf(t) = s /\ pc[t] \in {"setstream", "fail", "insert"}})

HasEntry(s) == s \in Keys(handle_map)

\* A step that issues no native call.
NoNativeCall ==
  /\ creates' = creates /\ destroys' = destroys
  /\ live' = live /\ bound' = bound

\* C1, as stated: when two threads have called Initialize for the same stream
\* and both have returned, exactly one cusparseCreate was issued for the stream
\* and both hold a reference to the same map entry.
C1_ExactlyOneCreate ==
  \A t1 \in Threads, t2 \in Threads :
    ( /\ t1 # t2
      /\ pc[t1] = "idle" /\ result[t1] # "none"
      /\ pc[t2] = "idle" /\ result[t2] # "none"
      /\ StreamOf(t1) = StreamOf(t2) )
    => /\ creates[StreamOf(t1)] = 1
       /\ obj[t1].initialized_ /\ obj[t2].initialized_
       /\ obj[t1].cusparse_handle_ = obj[t2].cusparse_handle_

\* C1, amended: the cusparseCreate calls issued for a stream are one per call
\* that returned an error, one per call still between create and insert, and
\* one more if the stream has an entry (so exactly one when nothing failed);
\* all callers that returned OK for a stream hold the same entry, the one
\* stored under that stream.
C1_OneCreatePerFailureOrEntry ==
  /\ \A s \in Streams :
       creates[s] = failed[s] + InFlight(s) + (IF HasEntry(s) THEN 1 ELSE 0)
  /\ \A t1 \in Threads, t2 \in Threads :
       (ReturnedOk(t1) /\ ReturnedOk(t2) /\ StreamOf(t1) = StreamOf(t2))
       => /\ obj[t1].initialized_
          /\ obj[t1].cusparse_handle_ = obj[t2].cusparse_handle_
          /\ \E n \in handle_map :
               n.id = obj[t1].cusparse_handle_ /\ n.key = StreamOf(t1)

\* Two threads have returned OK for the same stream after a single create.
C1_Witness ==
  \E t1 \in Threads, t2 \in Threads :
    /\ t1 # t2
    /\ ReturnedOk(t1) /\ ReturnedOk(t2)
    /\ StreamOf(t1) = StreamOf(t2)
    /\ obj[t1].cusparse_handle_ = obj[t2].cusparse_handle_
    /\ creates[StreamOf(t1)] = 1

\* C2: the handle map never holds two entries for one stream.
C2_OneEntryPerStream ==
  \A n1 \in handle_map, n2 \in handle_map : n1.key = n2.key => n1 = n2

\* A failed and a successful acquire of one stream have left one entry.
C2_Witness ==
  \E s \in Streams :
    /\ failed[s] >= 1 /\ HasEntry(s)
    /\ Cardinality({n \in handle_map : n.key = s}) = 1
    /\ \E t \in Threads : ReturnedOk(t) /\ StreamOf(t) = s

C4_DistinctStreamsDistinctHandles ==
  /\ \A t1 \in Threads, t2 \in Threads :
       (ReturnedOk(t1) /\ ReturnedOk(t2) /\ StreamOf(t1) # StreamOf(t2))
       => /\ obj[t1].cusparse_handle_ # obj[t2].cusparse_handle_
          /\ Node(handle_map, obj[t1].cusparse_handle_).val.cusparse_handle_
               # Node(handle_map, obj[t2].cusparse_handle_).val.cusparse_handle_
  /\ \A n1 \in handle_map, n2 \in handle_map :
       n1 # n2 => n1.val.cusparse_handle_ # n2.val.cusparse_handle_

\* Two threads have returned OK for two different streams.
C4_Witness ==
  \E t1 \in Threads, t2 \in Threads :
    /\ ReturnedOk(t1) /\ ReturnedOk(t2)
    /\ StreamOf(t1) # StreamOf(t2)
    /\ Cardinality(handle_map) = 2

\* C5: a call that fails returns an error and leaves no entry for its stream;
\* after a failure, a call that misses in the map goes on to cusparseCreate and
\* issues it; and a call whose initialization succeeds leaves an entry.
C5_FailureNotCached ==
  [][ \A t \in Threads :
        /\ (pc[t] = "fail" /\ pc'[t] = "idle")
           => /\ result'[t] = "error"
              /\ ~HasEntry(StreamOf(t))'
        /\ (pc[t] = "find" /\ pc'[t] # "find" /\ failed[StreamOf(t)] > 0
            /\ ~HasEntry(StreamOf(t)))
           => pc'[t] = "create"
        /\ (pc[t] = "create" /\ pc'[t] # "create" /\ failed[StreamOf(t)] > 0)
           => creates'[StreamOf(t)] = creates[StreamOf(t)] + 1
        /\ (pc[t] = "insert" /\ pc'[t] = "assign")
           => HasEntry(StreamOf(t))'
    ]_vars

\* After a failed create for a stream, a second create has given it an entry.
C5_Witness ==
  \E s \in Streams :
    /\ failed[s] = 1 /\ creates[s] = 2 /\ HasEntry(s)
    /\ live # {} /\ Cardinality(live) = 1
    /\ \E t \in Threads : ReturnedOk(t) /\ StreamOf(t) = s

\* C6, as stated: a failed call returns the error and keeps nothing: the map is
\* as it was when the lock was taken, the CudaSparse object is uninitialized
\* with no handle pointer, and the native handle the call created, if any, is
\* no longer alive.
C6_NoPartialState ==
  [][ \A t \in Threads :
        (pc[t] = "fail" /\ pc'[t] = "idle")
        => /\ result'[t] = "error"
           /\ handle_map' = mapAtLock[t]
           /\ ~obj'[t].initialized_
           /\ obj'[t].cusparse_handle_ = Null
           /\ created[t] # Null => created[t] \notin live'
    ]_vars

\* The CudaSparseHandles objects that are not in the middle of Initialize.
EntriesAtRest ==
  {n.val : n \in handle_map}
    \cup {new_handles[t] : t \in {u \in Threads : /\ new_handles[u].exists
                                                  /\ pc[u] \notin {"create", "setstream"}}}

\* C7, as stated: an entry's native handle is a live native resource exactly
\* when the entry is initialized.
C7_ValidIffInitialized ==
  \A e \in EntriesAtRest : (e.cusparse_handle_ \in live) <=> e.initialized_

\* ------------------------------------------ properties of CudaSparseHandles

\* The step applies operation name to slots dst and src.
Did(name, dst, src) == lastOp' = Op(name, dst, src) /\ ops' = ops + 1

NativeAfter == [live |-> live', destroys |-> destroys', aborted |-> aborted']

\* Destroying e in the state after the step changes nothing in the native layer.
DestroyIsNoOpAfter(e) ==
  \A ok \in BOOLEAN : Destructor(e, NativeAfter, ok).n = NativeAfter

\* C8: destroying an entry issues cusparseDestroy once when the entry is
\* initialized and not at all when it is not, as for an entry whose
\* Initialize failed.
C8_DestroyOnceIffInitialized ==
  [][ \A i \in Slots :
        Did("destroy", i, 0)
        => /\ destroys' = destroys + (IF slots[i].initialized_ THEN 1 ELSE 0)
           /\ ~slots[i].initialized_ => live' = live
           /\ ~slots'[i].exists
    ]_vars

\* An initialized entry has been destroyed with one cusparseDestroy.
C8_Witness ==
  /\ lastOp.op = "destroy"
  /\ destroys = 1
  /\ live = {}
  /\ \E s \in Streams : creates[s] = 1

\* C9, as stated, for a destination other than the source: a move construction
\* or move assignment issues no native call; the destination then holds the
\* source's stream, handle and former flag, the source is uninitialized and
\* destroying it does nothing.
C9_MoveNoNativeCall ==
  [][ \A d \in Slots, s \in Slots :
        (d # s /\ (Did("move_construct", d, s) \/ Did("move_assign", d, s)))
        => /\ creates' = creates /\ destroys' = destroys /\ live' = live
           /\ slots'[d].stream_ = slots[s].stream_
           /\ slots'[d].cusparse_handle_ = slots[s].cusparse_handle_
           /\ slots'[d].initialized_ = slots[s].initialized_
           /\ ~slots'[s].initialized_
           /\ DestroyIsNoOpAfter(slots'[s])
    ]_vars

\* C9, amended: such a move issues no cusparseCreate and never destroys the
\* source's handle; a move assignment issues one cusparseDestroy, for the
\* handle the destination owned, when the destination was initialized, and a
\* move otherwise issues none; the destination then holds the source's stream,
\* handle and former flag, the source is uninitialized and destroying it does
\* nothing.
C9_MoveTransfersOwnership ==
  [][ \A d \in Slots, s \in Slots :
        (d # s /\ (Did("move_construct", d, s) \/ Did("move_assign", d, s)))
        => LET released == Did("move_assign", d, s) /\ slots[d].initialized_
           IN /\ creates' = creates
              /\ destroys' = destroys + (IF released THEN 1 ELSE 0)
              /\ live' \subseteq live
              /\ live \ live' \subseteq
                   (IF released THEN {slots[d].cusparse_handle_} ELSE {})
              /\ slots[s].initialized_ => slots[s].cusparse_handle_ \in live'
              /\ slots'[d].stream_ = slots[s].stream_
              /\ slots'[d].cusparse_handle_ = slots[s].cusparse_handle_
              /\ slots'[d].initialized_ = slots[s].initialized_
              /\ ~slots'[s].initialized_
              /\ DestroyIsNoOpAfter(slots'[s])
    ]_vars

\* An initialized entry has been move-assigned to another one.
C9_Witness ==
  /\ lastOp.op = "move_assign"
  /\ lastOp.dst # lastOp.src
  /\ slots[lastOp.dst].initialized_
  /\ slots[lastOp.dst].cusparse_handle_ \in live
  /\ ~slots[lastOp.src].initialized_

\* C10: move-assigning an entry to itself changes neither the entry nor the
\* native layer, and issues no cusparseDestroy.
C10_SelfMoveAssignIsNoOp ==
  [][ \A i \in Slots :
        Did("move_assign", i, i)
        => /\ slots' = slots
           /\ destroys' = destroys /\ live' = live /\ creates' = creates
           /\ aborted' = aborted
    ]_vars

\* An initialized entry has been move-assigned to itself and is still initialized.
C10_Witness ==
  /\ lastOp.op = "move_assign"
  /\ lastOp.dst = lastOp.src
  /\ slots[lastOp.dst].initialized_
  /\ slots[lastOp.dst].cusparse_handle_ \in live
  /\ destroys = 0

\* The slots of sl that hold an initialized entry owning native handle h.
Owners(sl, h) ==
  {i \in Slots : sl[i].exists /\ sl[i].initialized_ /\ sl[i].cusparse_handle_ = h}

\* The native handles owned by some initialized entry of sl.
Owned(sl) == {h \in Handles : Owners(sl, h) # {}}

RECURSIVE SumOver(_, _)
SumOver(c, S) ==
  IF S = {} THEN 0
  ELSE LET s == CHOOSE x \in S : TRUE IN c[s] + SumOver(c, S \ {s})

\* The number of cusparseCreate calls so far, over all streams.
TotalCreates(c) == SumOver(c, Streams)

\* C11: no handle is destroyed twice.  Every step issues at most one
\* cusparseDestroy, and only for the handle of an entry that was initialized
\* and whose handle was still undestroyed, in a destruction or a move
\* assignment onto that entry; the entry gives the handle up with the call.
\* After every step each handle has at most one initialized owner and every
\* owned handle is undestroyed; a moved-from source is not an owner, so its
\* destruction issues no call and the final owner's issues one.  With each
\* destroy call there have been no more destroy calls than create calls.
C11_NoDoubleFree ==
  [][ /\ destroys' \in {destroys, destroys + 1}
      /\ destroys' = destroys => live \subseteq live'
      /\ destroys' = destroys + 1 => destroys' <= TotalCreates(creates')
      /\ destroys' = destroys + 1
         => \E i \in Slots :
              /\ Did("destroy", i, 0) \/ \E s \in Slots \ {i} : Did("move_assign", i, s)
              /\ slots[i].initialized_
              /\ slots[i].cusparse_handle_ \in live
              /\ live \ live' \subseteq {slots[i].cusparse_handle_}
              /\ i \notin Owners(slots', slots[i].cusparse_handle_)
      /\ \A i \in Slots, j \in Slots :
           (i # j /\ slots'[i].initialized_ /\ slots'[j].initialized_)
           => slots'[i].cusparse_handle_ # slots'[j].cusparse_handle_
      /\ \A i \in Slots : slots'[i].initialized_ => slots'[i].cusparse_handle_ \in live'
      /\ \A d \in Slots, s \in Slots :
           (d # s /\ slots[s].initialized_
              /\ (Did("move_construct", d, s) \/ Did("move_assign", d, s)))
           => /\ Owners(slots', slots[s].cusparse_handle_) = {d}
              /\ DestroyIsNoOpAfter(slots'[s])
      /\ \A i \in Slots :
           Did("destroy", i, 0)
           => destroys' = destroys + (IF i \in Owners(slots, slots[i].cusparse_handle_)
                                     THEN 1 ELSE 0)
    ]_vars

\* An entry was initialized and relocated, its moved-from source has just
\* been destroyed without a destroy call, and the new owner (which holds the
\* stream of another slot) still has the handle.
C11_Witness ==
  /\ lastOp.op = "destroy"
  /\ ~slots[lastOp.dst].exists
  /\ destroys = 0 /\ TotalCreates(creates) = 1
  /\ \E d \in Slots \ {lastOp.dst} :
       /\ slots[d].initialized_
       /\ slots[d].stream_ = SlotStream(lastOp.dst)
       /\ slots[d].stream_ # SlotStream(d)
       /\ Owners(slots, slots[d].cusparse_handle_) = {d}
       /\ slots[d].cusparse_handle_ \in live

\* C12, as stated: when the cusparseDestroy issued by the destruction of an
\* initialized entry does not succeed (the handle is still alive after the
\* call), the process is stopped by the fatal check.
C12_FailedDestroyIsFatal ==
  [][ \A i \in Slots :
        ( /\ Did("destroy", i, 0)
          /\ slots[i].initialized_
          /\ destroys' = destroys + 1
          /\ slots[i].cusparse_handle_ \in live' )
        => aborted'
    ]_vars

\* C13, as stated: no native routine is ever called through an unset or
\* uninitialized handle, because a wrapper invoked on an object whose
\* Initialize has not succeeded is stopped by the fatal check first.
C13_NoUseThroughUnsetHandle == ~misused

\* ------------------------------------------------ properties of the mutex

\* The threads that are between the lock and the unlock of Initialize.
Inside(p) == {t \in Threads : p[t] \in InSection}

\* C14: after every step at most one thread is inside the section and it is
\* the holder of the mutex, while a thread that is outside (waiting, or back
\* from Initialize and free to use its handle) does not hold it; the map is
\* written only by the holder, at its insert; a thread's iterator into the
\* map changes only while it holds the mutex; and a thread that leaves the
\* section, with OK or with an error, leaves the mutex free.
C14_MapAccessUnderMutex ==
  [][ /\ Cardinality(Inside(pc')) <= 1
      /\ \A t \in Threads : (pc'[t] \in InSection) <=> (handle_map_mutex' = t)
      /\ handle_map' # handle_map
         => \E t \in Threads : /\ handle_map_mutex = t
                               /\ pc[t] = "insert" /\ pc'[t] = "assign"
      /\ \A t \in Threads : it'[t] # it[t] => handle_map_mutex = t
      /\ \A t \in Threads :
           (pc[t] \in InSection /\ pc'[t] \notin InSection)
           => /\ handle_map_mutex = t
              /\ handle_map_mutex' = NoThread
              /\ pc'[t] = "idle" /\ result'[t] \in {"ok", "error"}
    ]_vars

\* One thread is back from Initialize with an error and another one is
\* inside the section, holding the mutex the first one released.
C14_Witness ==
  \E t1 \in Threads, t2 \in Threads :
    /\ t1 # t2
    /\ pc[t1] = "idle" /\ result[t1] = "error"
    /\ pc[t2] = "assign" /\ handle_map_mutex = t2

\* C15: at most one thread is at a native creation or binding call, and it
\* holds the mutex; this is so whatever streams the threads ask for.
C15_NativeCallsSerialized ==
  LET AtNative == {t \in Threads : pc[t] \in {"create", "setstream"}}
  IN /\ Cardinality(AtNative) <= 1
     /\ \A t \in AtNative : handle_map_mutex = t

\* A thread is binding the handle it created for one stream while another
\* thread waits for the mutex with a different stream that has no entry.
C15_Witness ==
  \E t1 \in Threads, t2 \in Threads :
    /\ StreamOf(t1) # StreamOf(t2)
    /\ pc[t1] = "setstream" /\ created[t1] # Null
    /\ pc[t2] = "lock"
    /\ ~HasEntry(StreamOf(t2))

\* C16: under fair scheduling every call of Initialize that has been made
\* returns, and the mutex, once taken, becomes free again, whatever the other
\* threads do and whether calls succeed or fail; the only other way out is
\* the end of the whole process.
C16_AcquireReturns ==
  /\ \A t \in Threads : (pc[t] # "idle") ~> (pc[t] = "idle" \/ aborted)
  /\ (handle_map_mutex # NoThread) ~> (handle_map_mutex = NoThread \/ aborted)

\* Every call that can be made has been made and has returned, one of them
\* with an error and one with OK, and the mutex is free.
C16_Witness ==
  /\ calls = MaxCalls
  /\ handle_map_mutex = NoThread
  /\ \A t \in Threads : pc[t] = "idle"
  /\ \E t1 \in Threads, t2 \in Threads : result[t1] = "error" /\ result[t2] = "ok"
  /\ ~aborted

\* --------------------------------------------------- properties of the map

\* Node n of the map holds an initialized entry whose handle exists.
Intact(n, lv) == n.val.initialized_ /\ n.val.cusparse_handle_ \in lv

\* C17: no step removes or changes a node of the map or destroys a handle
\* that a node of the map owns, cusparseDestroy is never called, and after
\* every step the object of each thread that got OK from Initialize points at
\* a node that is in the map for its stream, initialized, with its handle
\* undestroyed.
C17_MapOnlyGrows ==
  [][ /\ handle_map \subseteq handle_map'
      /\ \A n \in handle_map' : Cardinality({m \in handle_map' : m.id = n.id}) = 1
      /\ \A n \in handle_map : n.val.cusparse_handle_ \in live'
      /\ destroys' = destroys
      /\ \A t \in Threads :
           (pc'[t] = "idle" /\ result'[t] = "ok")
           => \E n \in handle_map' : /\ n.id = obj'[t].cusparse_handle_
                                    /\ n.key = obj'[t].cuda_stream_
                                    /\ Intact(n, live')
    ]_vars

\* A thread holds the handle it got for one stream, another thread's call
\* for another stream has failed, and the one entry is still there.
C17_Witness ==
  \E t1 \in Threads, t2 \in Threads :
    /\ t1 # t2
    /\ ReturnedOk(t1) /\ HasEntry(StreamOf(t1))
    /\ pc[t2] = "idle" /\ result[t2] = "error"
    /\ StreamOf(t2) # StreamOf(t1)
    /\ failed[StreamOf(t2)] >= 1
    /\ Cardinality(handle_map) = 1

\* C18: a thread goes from the create to the bind only with a created
\* handle, from the bind to the insert only with that handle bound to its
\* stream and the entry then marked initialized, and the map gets a node
\* only from a thread at the insert, for its stream and with the entry it
\* has built; an entry is not initialized before its bind has succeeded.
\* So after every step every node of the map holds, under its key, an
\* initialized entry for that stream whose handle exists and is bound to
\* that stream.
C18_EntriesInitializedAndBound ==
  [][ /\ \A t \in Threads :
           /\ (pc'[t] = "setstream" /\ pc[t] # "setstream")
              => /\ pc[t] = "create"
                 /\ new_handles'[t].cusparse_handle_ \in live' \ live
           /\ pc'[t] \in {"create", "setstream"} => ~new_handles'[t].initialized_
           /\ (pc'[t] = "insert" /\ pc[t] # "insert")
              => /\ pc[t] = "setstream"
                 /\ new_handles'[t].initialized_
                 /\ new_handles'[t].cusparse_handle_ = new_handles[t].cusparse_handle_
                 /\ bound'[new_handles'[t].cusparse_handle_] = obj[t].cuda_stream_
           /\ (pc'[t] = "fail" /\ pc[t] # "fail") => handle_map' = handle_map
      /\ handle_map' # handle_map
         => \E t \in Threads :
              /\ pc[t] = "insert" /\ pc'[t] = "assign"
              /\ \E n \in handle_map' :
                   /\ handle_map' = handle_map \cup {n}
                   /\ n.key = obj[t].cuda_stream_
                   /\ n.val = new_handles[t]
      /\ \A n \in handle_map' :
           /\ Intact(n, live')
           /\ n.val.stream_ = n.key
           /\ bound'[n.val.cusparse_handle_] = n.key
    ]_vars

\* Both streams have an entry, each initialized and bound to its own stream.
C18_Witness ==
  /\ \E s1 \in Streams, s2 \in Streams : s1 # s2 /\ HasEntry(s1) /\ HasEntry(s2)
  /\ \A n \in handle_map : Intact(n, live) /\ bound[n.val.cusparse_handle_] = n.key
  /\ \E n1 \in handle_map, n2 \in handle_map :
       n1.key # n2.key /\ n1.val.cusparse_handle_ # n2.val.cusparse_handle_

\* ------------------------------------- move assignment onto an owner

\* The native handles that exist and that no initialized entry of sl owns.
Leaked(sl, lv) == lv \ Owned(sl)

\* C19, as stated: when an entry is move-assigned onto a different entry
\* that is initialized, and the process goes on, cusparseDestroy has been
\* called exactly once, the destination has taken over the source's handle
\* and flag, no handle exists without an owner that had one before, and no
\* handle has two initialized owners.
C19_MoveAssignReleasesDestination ==
  [][ \A d \in Slots, s \in Slots :
        (d # s /\ Did("move_assign", d, s) /\ slots[d].initialized_ /\ ~aborted')
        => /\ destroys' = destroys + 1
           /\ creates' = creates
           /\ slots'[d].cusparse_handle_ = slots[s].cusparse_handle_
           /\ slots'[d].initialized_ = slots[s].initialized_
           /\ ~slots'[s].initialized_
           /\ Leaked(slots', live') \subseteq Leaked(slots, live)
           /\ \A h \in Handles : Cardinality(Owners(slots', h)) <= 1
    ]_vars

====
